---- MODULE Spec2Model ----
(***************************************************************************)
(* Model of cmd/webhook.go: the mutating admission handler that injects    *)
(* one goofys sidecar (container + two volumes + one volume mount) per     *)
(* "filer-conn-secret" secret of the pod's namespace.                      *)
(*                                                                         *)
(* Strings are sequences of pieces.  Strings the code inspects character   *)
(* by character (secret names, S3_BUCKET, annotation values, name tokens)  *)
(* are sequences of one-character pieces; literals that are only           *)
(* concatenated are kept as larger pieces, except that every "/" of a      *)
(* JSON Patch path (and of an annotation key) is a piece of its own, so    *)
(* that a path can be split into its JSON Pointer reference tokens.        *)
(***************************************************************************)
EXTENDS Integers, Sequences, FiniteSets, TLC

VARIABLES
    pod,              \* the pod of the admission request (req.Object.Raw, decoded)
    secretList,       \* the secrets of pod.Namespace, in listing order
    pc,               \* position of the handler: idle / loop / done / panic
    idx,              \* index of the next element of secretList.Items
    patch,            \* createPatch's local  patch []patchOperation
    filerBucketList,  \* createPatch's local  filerBucketList []string
    isFirstVol,       \* createPatch's local  isFirstVol
    invoked,          \* whether mutate called createPatch for this request
    response,         \* the AdmissionResponse mutate returned
    admissions        \* number of times the pod was re-submitted after patching

vars == <<pod, secretList, pc, idx, patch, filerBucketList, isFirstVol,
          invoked, response, admissions>>

-----------------------------------------------------------------------------
(* Bounds of the model *)

MaxSecrets == 3

MaxAdmissions == 1

-----------------------------------------------------------------------------
(* Go runtime and standard library helpers *)

\* strings.ToLower, on the ASCII letters
UpperToLower ==
    [A |-> "a", B |-> "b", C |-> "c", D |-> "d", E |-> "e", F |-> "f",
     G |-> "g", H |-> "h", I |-> "i", J |-> "j", K |-> "k", L |-> "l",
     M |-> "m", N |-> "n", O |-> "o", P |-> "p", Q |-> "q", R |-> "r",
     S |-> "s", T |-> "t", U |-> "u", V |-> "v", W |-> "w", X |-> "x",
     Y |-> "y", Z |-> "z"]

ToLower(s) ==
    [k \in 1..Len(s) |-> IF s[k] \in DOMAIN UpperToLower THEN UpperToLower[s[k]] ELSE s[k]]

\* index of the first piece of s equal to sep, 0 if there is none
IndexOf(s, sep) ==
    IF \E k \in 1..Len(s) : s[k] = sep
    THEN CHOOSE k \in 1..Len(s) : s[k] = sep /\ \A j \in 1..(k - 1) : s[j] # sep
    ELSE 0

\* strings.Split(s, sep) for a one-character separator
RECURSIVE Split(_, _)
Split(s, sep) ==
    LET k == IndexOf(s, sep)
    IN  IF k = 0 THEN <<s>>
        ELSE <<SubSeq(s, 1, k - 1)>> \o Split(SubSeq(s, k + 1, Len(s)), sep)

\* strings.Contains(s, sub)
Contains(s, sub) ==
    \E k \in 0..(Len(s) - Len(sub)) : SubSeq(s, k + 1, k + Len(sub)) = sub

\* strings.ReplaceAll(s, "--", "-"): non-overlapping matches, left to right
RECURSIVE ReplaceAllDoubleDash(_)
ReplaceAllDoubleDash(s) ==
    IF Len(s) < 2 THEN s
    ELSE IF s[1] = "-" /\ s[2] = "-"
         THEN <<"-">> \o ReplaceAllDoubleDash(SubSeq(s, 3, Len(s)))
         ELSE <<s[1]>> \o ReplaceAllDoubleDash(Tail(s))

\* strings.TrimRight(s, "-")
RECURSIVE TrimRightDash(_)
TrimRightDash(s) ==
    IF Len(s) > 0 /\ s[Len(s)] = "-" THEN TrimRightDash(SubSeq(s, 1, Len(s) - 1)) ELSE s

DigitChars == <<"0", "1", "2", "3", "4", "5", "6", "7", "8", "9">>

\* strconv.Itoa(n), n >= 0
RECURSIVE Itoa(_)
Itoa(n) ==
    IF n < 10 THEN <<DigitChars[n + 1]>>
    ELSE Itoa(n \div 10) \o <<DigitChars[(n % 10) + 1]>>

\* slices.Contains(list, x)
SlicesContains(list, x) == \E k \in 1..Len(list) : list[k] = x

LowerAlnum ==
    {"a", "b", "c", "d", "e", "f", "g", "h", "i", "j", "k", "l", "m", "n", "o",
     "p", "q", "r", "s", "t", "u", "v", "w", "x", "y", "z",
     "0", "1", "2", "3", "4", "5", "6", "7", "8", "9"}

\* validNameRegex.MatchString(s):  ^[a-z0-9]([-a-z0-9]*[a-z0-9])?$
validNameRegex(s) ==
    /\ Len(s) >= 1
    /\ s[1] \in LowerAlnum
    /\ s[Len(s)] \in LowerAlnum
    /\ \A k \in 1..Len(s) : s[k] \in LowerAlnum \cup {"-"}

-----------------------------------------------------------------------------
(* Constants of the program *)

admissionWebhookAnnotationInjectKey ==
    <<"filer-injector-webhook.das-zone.statcan", "/", "inject">>

admissionWebhookAnnotationStatusKey ==
    <<"filer-injector-webhook.das-zone.statcan", "/", "status">>

NotebookNameLabel == "notebook-name"

Injected == <<"i", "n", "j", "e", "c", "t", "e", "d">>

NegativeInjectValues ==
    { <<"n">>, <<"n", "o", "t">>, <<"f", "a", "l", "s", "e">>, <<"o", "f", "f">> }

FilerConnSecret ==
    <<"f", "i", "l", "e", "r", "-", "c", "o", "n", "n", "-", "s", "e", "c", "r", "e", "t">>

FilerNameLimit == 7

BucketNameLimit == 5

DeepestDirLimit == 5

RandLimit == 100

IllegalChars == {"!", "@", "#", "$", "%", "^", "&", "*", "(", ")"}

-----------------------------------------------------------------------------
(* Mutation policy *)

\* a Go map read: the zero value "" for a missing key
MapGet(m, key) == IF key \in DOMAIN m THEN m[key] ELSE <<>>

\* mutationRequired without the label test
mutationRequired_NoLabelTest(metadata) ==
    LET annotations == metadata.annotations.m
        status == MapGet(annotations, admissionWebhookAnnotationStatusKey)
    IN  IF ToLower(status) = Injected THEN FALSE
        ELSE ToLower(MapGet(annotations, admissionWebhookAnnotationInjectKey))
                 \notin NegativeInjectValues

\* mutationRequired comparing the annotations without lower-casing them
mutationRequired_CaseSensitive(metadata) ==
    IF NotebookNameLabel \notin DOMAIN metadata.labels THEN FALSE
    ELSE LET annotations == metadata.annotations.m
             status == MapGet(annotations, admissionWebhookAnnotationStatusKey)
         IN  IF status = Injected THEN FALSE
             ELSE MapGet(annotations, admissionWebhookAnnotationInjectKey)
                      \notin NegativeInjectValues

mutationRequired(metadata) ==
    IF NotebookNameLabel \notin DOMAIN metadata.labels THEN FALSE
    ELSE LET annotations == metadata.annotations.m   \* nil is read as the empty map
             status == MapGet(annotations, admissionWebhookAnnotationStatusKey)
         IN  IF ToLower(status) = Injected THEN FALSE
             ELSE ToLower(MapGet(annotations, admissionWebhookAnnotationInjectKey))
                      \notin NegativeInjectValues

-----------------------------------------------------------------------------
(* Naming *)

limitString(str, length) ==
    IF Len(str) > length THEN SubSeq(str, 1, length) ELSE str

cleanName(name) == TrimRightDash(ReplaceAllDoubleDash(name))

\* r is the value of rand.Intn(100)
appendIntIfNeeded(name, r) ==
    IF \E k \in 1..Len(name) : name[k] \in IllegalChars THEN name \o Itoa(r) ELSE name

\* createPatch, lines 233-237
FilerNameOf(secretName) ==
    LET filerNameList == Split(secretName, "-")
    IN  IF Len(filerNameList) > 1 THEN filerNameList[1] ELSE <<"e", "r", "r", "o", "r">>

\* createPatch, lines 259-269: the name before validation
RawFilerBucketName(filerName, bucketMount) ==
    LET bucketDirs == Split(bucketMount, "/")
        limitFilerName == limitString(filerName, FilerNameLimit)
        limitBucketName == limitString(bucketDirs[1], BucketNameLimit)
    IN  TrimRightDash(ReplaceAllDoubleDash(limitFilerName \o <<"-">> \o limitBucketName))

\* createPatch, lines 272-278
ValidatedFilerBucketName(filerName, bucketMount, r) ==
    LET n0 == RawFilerBucketName(filerName, bucketMount)
    IN  IF validNameRegex(n0) THEN n0
        ELSE LET n1 == cleanName(n0)
             IN  IF validNameRegex(n1) THEN n1 ELSE appendIntIfNeeded(n1, r)

\* the outcomes of rand.Intn(100): every value of 0..99 when appendIntIfNeeded
\* is reached and appends it, a single value when the number is not used
RandChoices(filerName, bucketMount) ==
    LET n1 == cleanName(RawFilerBucketName(filerName, bucketMount))
    IN  IF /\ ~validNameRegex(RawFilerBucketName(filerName, bucketMount))
           /\ ~validNameRegex(n1)
           /\ \E k \in 1..Len(n1) : n1[k] \in IllegalChars
        THEN 0..(RandLimit - 1)
        ELSE {0}

\* createPatch, lines 280-283
WithDeepestDir(name, bucketMount) ==
    LET bucketDirs == Split(bucketMount, "/")
    IN  IF Len(bucketDirs) >= 2
        THEN name \o <<"-">> \o limitString(bucketDirs[Len(bucketDirs)], DeepestDirLimit)
        ELSE name

\* createPatch, lines 286-288
Deduplicated(name, usedList) ==
    IF SlicesContains(usedList, name)
    THEN name \o <<"-">> \o Itoa(Len(usedList) + 1)
    ELSE name

\* createPatch, lines 257-288: the name token of one valid secret
FilerBucketName(secret, usedList, r) ==
    LET filerName == FilerNameOf(secret.name)
        bucketMount == secret.data.S3_BUCKET
    IN  Deduplicated(
            WithDeepestDir(ValidatedFilerBucketName(filerName, bucketMount, r), bucketMount),
            usedList)

-----------------------------------------------------------------------------
(* Patch builders *)

EmptyMap == [k \in {} |-> <<>>]

ContainersPath == <<"/", "spec", "/", "containers">>

VolumesPath == <<"/", "spec", "/", "volumes">>

AnnotationsPath == <<"/", "metadata", "/", "annotations">>

WorkingVolumeMountsPath == <<"/", "spec", "/", "containers", "/", "0", "/", "volumeMounts">>

AppendSuffix == <<"/", "-">>

PatchOp(op, path, value) == [op |-> op, path |-> path, value |-> value]

RECURSIVE addContainerFrom(_, _, _)
addContainerFrom(first, added, basePath) ==
    IF added = <<>> THEN <<>>
    ELSE LET add == Head(added)
         IN  IF first
             THEN <<PatchOp("add", basePath, <<add>>)>>
                      \o addContainerFrom(FALSE, Tail(added), basePath)
             ELSE <<PatchOp("add", basePath \o AppendSuffix, add)>>
                      \o addContainerFrom(FALSE, Tail(added), basePath)

addContainer(target, added, basePath) ==
    addContainerFrom(Len(target) = 0, added, basePath)

RECURSIVE addVolumeFrom(_, _, _)
addVolumeFrom(first, added, basePath) ==
    IF added = <<>> THEN <<>>
    ELSE LET add == Head(added)
         IN  IF first
             THEN <<PatchOp("add", basePath, <<add>>)>>
                      \o addVolumeFrom(FALSE, Tail(added), basePath)
             ELSE <<PatchOp("add", basePath \o AppendSuffix, add)>>
                      \o addVolumeFrom(FALSE, Tail(added), basePath)

addVolume(target, added, basePath) ==
    addVolumeFrom(Len(target) = 0, added, basePath)

\* target is [isNil, m]; the keys of added are visited in an order Go leaves
\* unspecified (mutate passes a single key)
RECURSIVE updateAnnotationFrom(_, _, _)
updateAnnotationFrom(target, added, keys) ==
    IF keys = {} THEN <<>>
    ELSE LET key == CHOOSE k \in keys : TRUE
         IN  IF target.isNil \/ MapGet(target.m, key) = <<>>
             THEN <<PatchOp("add", AnnotationsPath, [k \in {key} |-> added[key]])>>
                      \o updateAnnotationFrom([isNil |-> FALSE, m |-> EmptyMap],
                                              added, keys \ {key})
             ELSE <<PatchOp("replace", AnnotationsPath \o <<"/">> \o key, added[key])>>
                      \o updateAnnotationFrom(target, added, keys \ {key})

updateAnnotation(target, added) == updateAnnotationFrom(target, added, DOMAIN added)

WorkingVolumeMount(volumeName, bucketMount, filerName) ==
    [name |-> volumeName,
     mountPath |-> <<"/home/jovyan/filers/">> \o filerName \o <<"/">> \o bucketMount,
     readOnly |-> FALSE,
     mountPropagation |-> "HostToContainer"]

\* the inner loop of updateWorkingVolumeMounts over the Env of one container
RECURSIVE updateWorkingVolumeMountsEnv(_, _, _)
updateWorkingVolumeMountsEnv(env, valueA, isFirst) ==
    IF env = <<>> THEN <<>>
    ELSE (IF Head(env).name = "NB_PREFIX"
          THEN IF isFirst
               THEN <<PatchOp("add", WorkingVolumeMountsPath, <<valueA>>)>>
               ELSE <<PatchOp("add", WorkingVolumeMountsPath \o AppendSuffix, valueA)>>
          ELSE <<>>)
         \o updateWorkingVolumeMountsEnv(Tail(env), valueA, isFirst)

RECURSIVE updateWorkingVolumeMounts(_, _, _, _, _)
updateWorkingVolumeMounts(targetContainerSpec, volumeName, bucketMount, filerName, isFirst) ==
    IF targetContainerSpec = <<>> THEN <<>>
    ELSE updateWorkingVolumeMountsEnv(Head(targetContainerSpec).env,
                                      WorkingVolumeMount(volumeName, bucketMount, filerName),
                                      isFirst)
         \o updateWorkingVolumeMounts(Tail(targetContainerSpec), volumeName, bucketMount,
                                      filerName, isFirst)

-----------------------------------------------------------------------------
(* The sidecar template and its instantiation *)

\* whsvr.sidecarConfig: one container (three env entries, one volume mount)
\* and two volumes (the fd-passing emptyDir and the CSI ephemeral volume)
sidecarConfigTemplate ==
    [Containers |->
        << [name |-> <<"goofys">>,
            args |-> <<>>,
            env |-> << [name |-> "FUSERMOUNT3PROXY_FDPASSING_SOCKPATH", value |-> <<>>],
                       [name |-> "AWS_ACCESS_KEY_ID", value |-> <<>>],
                       [name |-> "AWS_SECRET_ACCESS_KEY", value |-> <<>>] >>,
            volumeMounts |-> << [name |-> <<"fuse-fd-passing">>,
                                 mountPath |-> <<"/fusermount3-proxy">>,
                                 readOnly |-> FALSE,
                                 mountPropagation |-> ""] >>] >>,
     Volumes |->
        << [name |-> <<"fuse-fd-passing">>, kind |-> "emptyDir", attrs |-> EmptyMap],
           [name |-> <<"fuse-csi-ephemeral">>, kind |-> "csi",
            attrs |-> [k \in {"fdPassingEmptyDirName"} |-> <<>>]] >>]

fdPassingVolumeMountName(filerBucketName, namespace) ==
    <<"fuse-fd-passing-">> \o filerBucketName \o <<"-">> \o namespace

csiEphemeralVolumeMountName(filerBucketName, namespace) ==
    <<"fuse-csi-ephemeral-">> \o filerBucketName \o <<"-">> \o namespace

\* Instantiate without line 304: Volumes[0] keeps the name the template gave it
Instantiate_Volume0NotRenamed(template, secret, filerBucketName, namespace) ==
    LET c == template.Containers[1]
        fdName == fdPassingVolumeMountName(filerBucketName, namespace)
    IN  [Containers |->
            << [c EXCEPT
                  !.name = filerBucketName,
                  !.args = << <<"-c">>,
                              <<"/goofys --cheap --endpoint ">> \o secret.data.S3_URL
                              \o <<" --http-timeout 1500s --dir-mode 0777 --file-mode 0777  --debug_fuse --debug_s3 -o allow_other -f ">>
                              \o secret.data.S3_BUCKET
                              \o <<"/ /tmp; echo sleeping...; sleep infinity">> >>,
                  !.env[1].value = <<"fusermount3-proxy-">> \o filerBucketName \o <<"-">>
                                       \o namespace \o <<"/fuse-csi-ephemeral.sock">>,
                  !.env[2].value = secret.data.S3_ACCESS,
                  !.env[3].value = secret.data.S3_SECRET,
                  !.volumeMounts[1].name = fdName,
                  !.volumeMounts[1].mountPath =
                      <<"fusermount3-proxy-">> \o filerBucketName \o <<"-">> \o namespace] >>
             \o Tail(template.Containers),
         Volumes |->
            [template.Volumes EXCEPT
                  ![2].name = csiEphemeralVolumeMountName(filerBucketName, namespace),
                  ![2].attrs = [k \in DOMAIN @ \cup {"fdPassingEmptyDirName"} |->
                                   IF k = "fdPassingEmptyDirName" THEN fdName ELSE @[k]]]]

\* createPatch, lines 239-240 and 291-307: the deep copy of the template, specialised
Instantiate(template, secret, filerBucketName, namespace) ==
    LET c == template.Containers[1]
        fdName == fdPassingVolumeMountName(filerBucketName, namespace)
    IN  [Containers |->
            << [c EXCEPT
                  !.name = filerBucketName,
                  !.args = << <<"-c">>,
                              <<"/goofys --cheap --endpoint ">> \o secret.data.S3_URL
                              \o <<" --http-timeout 1500s --dir-mode 0777 --file-mode 0777  --debug_fuse --debug_s3 -o allow_other -f ">>
                              \o secret.data.S3_BUCKET
                              \o <<"/ /tmp; echo sleeping...; sleep infinity">> >>,
                  !.env[1].value = <<"fusermount3-proxy-">> \o filerBucketName \o <<"-">>
                                       \o namespace \o <<"/fuse-csi-ephemeral.sock">>,
                  !.env[2].value = secret.data.S3_ACCESS,
                  !.env[3].value = secret.data.S3_SECRET,
                  !.volumeMounts[1].name = fdName,
                  !.volumeMounts[1].mountPath =
                      <<"fusermount3-proxy-">> \o filerBucketName \o <<"-">> \o namespace] >>
             \o Tail(template.Containers),
         Volumes |->
            [template.Volumes EXCEPT
                  ![1].name = fdName,
                  ![2].name = csiEphemeralVolumeMountName(filerBucketName, namespace),
                  ![2].attrs = [k \in DOMAIN @ \cup {"fdPassingEmptyDirName"} |->
                                   IF k = "fdPassingEmptyDirName" THEN fdName ELSE @[k]]]]

\* createPatch, line 231
IsFilerConnSecret(secret) == Contains(secret.name, FilerConnSecret)

\* createPatch, line 251 negated, testing S3_BUCKET only
IsValidSecret_BucketOnly(secret) == secret.data.S3_BUCKET # <<>>

\* createPatch, line 251 negated
IsValidSecret(secret) ==
    ~ (\/ secret.data.S3_BUCKET = <<>>
       \/ secret.data.S3_URL = <<>>
       \/ secret.data.S3_ACCESS = <<>>
       \/ secret.data.S3_SECRET = <<>>)

\* createPatch, lines 309-312: the operations appended for one valid secret
SecretPatch(p, secret, filerBucketName, annotations, isFirst) ==
    LET sidecarConfig == Instantiate(sidecarConfigTemplate, secret, filerBucketName,
                                     p.namespace)
    IN  addContainer(p.containers, sidecarConfig.Containers, ContainersPath)
        \o addVolume(p.volumes, sidecarConfig.Volumes, VolumesPath)
        \o updateAnnotation(p.annotations, annotations)
        \o updateWorkingVolumeMounts(p.containers,
                                     csiEphemeralVolumeMountName(filerBucketName, p.namespace),
                                     secret.data.S3_BUCKET, FilerNameOf(secret.name), isFirst)

\* mutate, line 366
StatusAnnotations == [k \in {admissionWebhookAnnotationStatusKey} |-> Injected]

-----------------------------------------------------------------------------
(* JSON Patch (RFC 6902) as the API server applies response.Patch, of       *)
(* PatchType JSONPatch, to the pod.  A list member of the pod document       *)
(* exists exactly when the list is not empty (empty lists are omitted from  *)
(* the serialised pod).                                                     *)

\* RFC 6901: "~1" stands for "/" and "~0" for "~" inside a reference token
UnescapeToken(tok) ==
    [k \in 1..Len(tok) |-> IF tok[k] = "~1" THEN "/" ELSE IF tok[k] = "~0" THEN "~" ELSE tok[k]]

\* RFC 6901: the reference tokens of a non-empty JSON Pointer
PointerTokens(path) ==
    LET parts == Tail(Split(path, "/"))
    IN  [k \in 1..Len(parts) |-> UnescapeToken(parts[k])]

ArrayIndexTokens == { <<"0">>, <<"1">>, <<"2">>, <<"3">> }

ArrayIndex(tok) ==
    IF tok = <<"0">> THEN 1 ELSE IF tok = <<"1">> THEN 2 ELSE IF tok = <<"2">> THEN 3 ELSE 4

ApplyOp(p, o) ==
    LET t == PointerTokens(o.path)
        n == Len(t)
        fail == [ok |-> FALSE, pod |-> p]
    IN  IF n < 2 \/ o.path[1] # "/" THEN fail
        ELSE IF t[1] = <<"spec">> /\ t[2] \in { <<"containers">>, <<"volumes">> } /\ n <= 3
        THEN LET isC == (t[2] = <<"containers">>)
                 cur == IF isC THEN p.containers ELSE p.volumes
                 put(v) == [ok |-> TRUE,
                            pod |-> IF isC THEN [p EXCEPT !.containers = v]
                                    ELSE [p EXCEPT !.volumes = v]]
             IN  IF n = 2
                 THEN IF o.op = "add" \/ cur # <<>> THEN put(o.value) ELSE fail
                 ELSE IF t[3] = <<"-">> /\ o.op = "add" /\ cur # <<>>
                      THEN put(Append(cur, o.value))
                      ELSE fail
        ELSE IF /\ t[1] = <<"spec">> /\ t[2] = <<"containers">> /\ n \in {4, 5}
                /\ t[3] \in ArrayIndexTokens /\ t[4] = <<"volumeMounts">>
        THEN LET i == ArrayIndex(t[3])
             IN  IF i > Len(p.containers) THEN fail
                 ELSE LET cur == p.containers[i].volumeMounts
                          put(v) == [ok |-> TRUE,
                                     pod |-> [p EXCEPT !.containers[i].volumeMounts = v]]
                      IN  IF n = 4
                          THEN IF o.op = "add" \/ cur # <<>> THEN put(o.value) ELSE fail
                          ELSE IF t[5] = <<"-">> /\ o.op = "add" /\ cur # <<>>
                               THEN put(Append(cur, o.value))
                               ELSE fail
        ELSE IF t[1] = <<"metadata">> /\ t[2] = <<"annotations">>
        THEN IF n = 2
             THEN IF o.op = "add" \/ ~p.annotations.isNil
                  THEN [ok |-> TRUE,
                        pod |-> [p EXCEPT !.annotations = [isNil |-> FALSE, m |-> o.value]]]
                  ELSE fail
             ELSE IF n = 3 /\ ~p.annotations.isNil
                        /\ (o.op = "add" \/ t[3] \in DOMAIN p.annotations.m)
                  THEN [ok |-> TRUE,
                        pod |-> [p EXCEPT !.annotations.m =
                                    [k \in DOMAIN @ \cup {t[3]} |->
                                        IF k = t[3] THEN o.value ELSE @[k]]]]
                  \* a longer path descends into an annotation value, which is a string
                  ELSE fail
        ELSE fail

RECURSIVE ApplyOps(_, _)
ApplyOps(p, ops) ==
    IF ops = <<>> THEN [ok |-> TRUE, pod |-> p]
    ELSE LET r == ApplyOp(p, Head(ops))
         IN  IF r.ok THEN ApplyOps(r.pod, Tail(ops)) ELSE r

\* the operations applied in order; the first one that fails rejects the whole
\* patch and leaves the pod as it was
ApplyPatch(p, ops) ==
    LET r == ApplyOps(p, ops)
    IN  IF r.ok THEN r ELSE [ok |-> FALSE, pod |-> p]

-----------------------------------------------------------------------------
(* Inputs: pods and secret listings *)

Secret(name, bucket, url, access, secretKey) ==
    [name |-> name,
     data |-> [S3_BUCKET |-> bucket, S3_URL |-> url, S3_ACCESS |-> access,
               S3_SECRET |-> secretKey]]

SecretName(filer, suffix) == filer \o <<"-">> \o FilerConnSecret \o suffix

Url == <<"h", "t", "t", "p", ":", "/", "/", "s", "3">>

AccessKey == <<"A", "K">>

SecretKey == <<"S", "K">>

\* the secrets of a namespace, in the order of their names
AllSecrets ==
    << Secret(SecretName(<<"a">>, <<>>), <<"b">>, Url, AccessKey, SecretKey),
       Secret(SecretName(<<"a">>, <<"-", "1">>), <<"b", "/", "3">>, Url, AccessKey, SecretKey),
       Secret(SecretName(<<"a">>, <<"-", "2">>), <<"b">>, Url, AccessKey, SecretKey),
       Secret(SecretName(<<"a">>, <<"-", "3">>), <<>>, Url, AccessKey, SecretKey),
       Secret(SecretName(<<"a">>, <<"-", "4">>), <<"b">>, <<>>, AccessKey, SecretKey),
       Secret(SecretName(<<"a">>, <<"-", "5">>), <<"b">>, Url, <<>>, SecretKey),
       Secret(SecretName(<<"a">>, <<"-", "6">>), <<"b">>, Url, AccessKey, <<>>),
       Secret(SecretName(<<"a">>, <<"-", "7">>), <<"B", "/">>, Url, AccessKey, SecretKey),
       Secret(SecretName(<<"a">>, <<"-", "8">>), <<"b", "!">>, Url, AccessKey, SecretKey),
       Secret(<<"d", "e", "f", "a", "u", "l", "t", "-", "t", "o", "k", "e", "n">>,
              <<>>, <<>>, <<>>, <<>>),
       Secret(SecretName(<<"s", "a", "s", "f", "s", "4", "0", "0", "0">>, <<>>),
              <<"p", "r", "o", "j", "e", "c", "t", "s", "/", "x", "/",
                "d", "e", "e", "p", "-", "d", "i", "r">>,
              Url, AccessKey, SecretKey) >>

\* the listings used with the varied pods: two valid secrets, one without its
\* bucket and one that is no filer-conn-secret
FewSecrets == << AllSecrets[1], AllSecrets[4], AllSecrets[10], AllSecrets[11] >>

RECURSIVE Pick(_, _, _)
Pick(master, chosen, k) ==
    IF k > Len(master) THEN <<>>
    ELSE (IF k \in chosen THEN <<master[k]>> ELSE <<>>) \o Pick(master, chosen, k + 1)

\* the listings of at most n secrets taken from master, in the order of master
Listings(master, n) ==
    { Pick(master, chosen, 1) :
        chosen \in { c \in SUBSET (1..Len(master)) : Cardinality(c) <= n } }

Namespace == <<"n", "s">>

OwnerKey == <<"owner">>

StatusValues ==
    { <<>>, Injected,
      <<"I", "n", "j", "e", "c", "t", "e", "d">>,
      <<"I", "N", "J", "E", "C", "T", "E", "D">>,
      <<"i", "n", "j", "e", "c", "t">>,
      <<"p", "e", "n", "d", "i", "n", "g">> }

InjectValues ==
    { <<>>, <<"n">>, <<"N">>, <<"n", "o">>, <<"n", "o", "t">>, <<"N", "o", "T">>,
      <<"f", "a", "l", "s", "e">>, <<"F", "A", "L", "S", "E">>,
      <<"o", "f", "f">>, <<"O", "f", "f">>,
      <<"y", "e", "s">>, <<"t", "r", "u", "e">> }

OwnerValues == { <<"t", "e", "a", "m">> }

ValuesOf(key) ==
    IF key = admissionWebhookAnnotationStatusKey THEN StatusValues
    ELSE IF key = admissionWebhookAnnotationInjectKey THEN InjectValues
    ELSE OwnerValues

AnnotationKeys ==
    {admissionWebhookAnnotationStatusKey, admissionWebhookAnnotationInjectKey, OwnerKey}

\* every annotation map over the three keys, and the nil map
AllAnnotations ==
    {[isNil |-> TRUE, m |-> EmptyMap]}
    \cup { [isNil |-> FALSE, m |-> f] :
             f \in UNION { { g \in [K -> StatusValues \cup InjectValues \cup OwnerValues] :
                               \A k \in K : g[k] \in ValuesOf(k) } :
                           K \in SUBSET AnnotationKeys } }

\* annotation maps under which an eligible pod is mutated
FewAnnotations ==
    { a \in AllAnnotations :
        /\ admissionWebhookAnnotationStatusKey \in DOMAIN a.m
               => a.m[admissionWebhookAnnotationStatusKey]
                      \in { <<>>, <<"p", "e", "n", "d", "i", "n", "g">> }
        /\ admissionWebhookAnnotationInjectKey \in DOMAIN a.m
               => a.m[admissionWebhookAnnotationInjectKey] = <<"y", "e", "s">> }

ExistingMount ==
    [name |-> <<"workspace">>, mountPath |-> <<"/home/jovyan">>,
     readOnly |-> FALSE, mountPropagation |-> ""]

ExistingVolume == [name |-> <<"workspace">>, kind |-> "pvc", attrs |-> EmptyMap]

WorkingContainer(mounts) ==
    [name |-> <<"notebook">>, args |-> <<>>,
     env |-> << [name |-> "NB_PREFIX", value |-> <<"/notebook/ns/nb">>] >>,
     volumeMounts |-> mounts]

OtherContainer ==
    [name |-> <<"istio-proxy">>, args |-> <<>>,
     env |-> << [name |-> "ISTIO_META", value |-> <<"x">>] >>,
     volumeMounts |-> <<>>]

ContainerLists ==
    { <<>>,
      <<WorkingContainer(<<>>)>>,
      <<WorkingContainer(<<ExistingMount>>)>>,
      <<OtherContainer, WorkingContainer(<<ExistingMount>>)>>,
      <<OtherContainer>> }

LabelMaps ==
    { [k \in {} |-> ""],
      [k \in {NotebookNameLabel} |-> "nb"],
      [k \in {"app"} |-> "web"] }

Pod(labels, annotations, containers, volumes) ==
    [labels |-> labels, annotations |-> annotations, namespace |-> Namespace,
     containers |-> containers, volumes |-> volumes]

\* pods that vary in their labels and annotations
PolicyPods ==
    { Pod(l, a, <<WorkingContainer(<<ExistingMount>>)>>, <<ExistingVolume>>) :
        l \in LabelMaps, a \in AllAnnotations }

\* eligible pods that vary in their containers, volumes and annotations
PatchPods ==
    { Pod([k \in {NotebookNameLabel} |-> "nb"], a, c, v) :
        a \in FewAnnotations, c \in ContainerLists, v \in { <<>>, <<ExistingVolume>> } }

NamingPod ==
    Pod([k \in {NotebookNameLabel} |-> "nb"], [isNil |-> TRUE, m |-> EmptyMap],
        <<WorkingContainer(<<ExistingMount>>)>>, <<ExistingVolume>>)

NoResponse == [allowed |-> FALSE, hasPatch |-> FALSE, patch |-> <<>>]

-----------------------------------------------------------------------------
(* The state machine *)

Init ==
    /\ \/ pod \in PolicyPods /\ secretList \in Listings(FewSecrets, 1)
       \/ pod \in PatchPods /\ secretList \in Listings(FewSecrets, MaxSecrets)
       \/ pod = NamingPod /\ secretList \in Listings(AllSecrets, MaxSecrets)
    /\ pc = "idle"
    /\ idx = 1
    /\ patch = <<>>
    /\ filerBucketList = <<>>
    /\ isFirstVol = TRUE
    /\ invoked = FALSE
    /\ response = NoResponse
    /\ admissions = 0

\* mutate, lines 359-364: the policy says no
MutateSkip ==
    /\ pc = "idle"
    /\ ~mutationRequired(pod)
    /\ response' = [allowed |-> TRUE, hasPatch |-> FALSE, patch |-> <<>>]
    /\ pc' = "done"
    /\ UNCHANGED <<pod, secretList, idx, patch, filerBucketList, isFirstVol, invoked,
                   admissions>>

\* mutate, lines 366-367 and createPatch, lines 209-228: createPatch is entered
\* and has the listing of the namespace's secrets
CreatePatchBegin ==
    /\ pc = "idle"
    /\ mutationRequired(pod)
    /\ invoked' = TRUE
    /\ patch' = <<>>
    /\ filerBucketList' = <<>>
    /\ isFirstVol' = ~(Len(pod.volumes) > 0)
    /\ idx' = 1
    /\ pc' = "loop"
    /\ UNCHANGED <<pod, secretList, response, admissions>>

\* createPatch, lines 212-221: no in-cluster configuration or client (panic),
\* or a failed listing, whose nil result line 229 dereferences
CreatePatchPanic ==
    /\ pc = "idle"
    /\ mutationRequired(pod)
    /\ invoked' = TRUE
    /\ pc' = "panic"
    /\ UNCHANGED <<pod, secretList, idx, patch, filerBucketList, isFirstVol, response,
                   admissions>>

\* createPatch, line 231: the secret is no filer-conn-secret
LoopSkipOther ==
    /\ pc = "loop"
    /\ idx <= Len(secretList)
    /\ ~IsFilerConnSecret(secretList[idx])
    /\ idx' = idx + 1
    /\ UNCHANGED <<pod, secretList, pc, patch, filerBucketList, isFirstVol, invoked,
                   response, admissions>>

\* createPatch, lines 251-255: a required field is empty
LoopSkipInvalid ==
    /\ pc = "loop"
    /\ idx <= Len(secretList)
    /\ IsFilerConnSecret(secretList[idx])
    /\ ~IsValidSecret(secretList[idx])
    /\ idx' = idx + 1
    /\ UNCHANGED <<pod, secretList, pc, patch, filerBucketList, isFirstVol, invoked,
                   response, admissions>>

\* createPatch, lines 257-313: one sidecar is named, instantiated and added
LoopInject ==
    /\ pc = "loop"
    /\ idx <= Len(secretList)
    /\ IsFilerConnSecret(secretList[idx])
    /\ IsValidSecret(secretList[idx])
    /\ \E r \in RandChoices(FilerNameOf(secretList[idx].name),
                            secretList[idx].data.S3_BUCKET) :
          LET filerBucketName == FilerBucketName(secretList[idx], filerBucketList, r)
          IN  /\ filerBucketList' = Append(filerBucketList, filerBucketName)
              /\ patch' = patch \o SecretPatch(pod, secretList[idx], filerBucketName,
                                               StatusAnnotations, isFirstVol)
    /\ isFirstVol' = FALSE
    /\ idx' = idx + 1
    /\ UNCHANGED <<pod, secretList, pc, invoked, response, admissions>>

\* createPatch, line 316 and mutate, lines 376-384
Return ==
    /\ pc = "loop"
    /\ idx > Len(secretList)
    /\ response' = [allowed |-> TRUE, hasPatch |-> TRUE, patch |-> patch]
    /\ pc' = "done"
    /\ UNCHANGED <<pod, secretList, idx, patch, filerBucketList, isFirstVol, invoked,
                   admissions>>

\* the API server applies the returned JSON Patch and the patched pod is
\* submitted for admission again
Readmit ==
    /\ pc = "done"
    /\ response.hasPatch
    /\ admissions < MaxAdmissions
    /\ ApplyPatch(pod, response.patch).ok
    /\ pod' = ApplyPatch(pod, response.patch).pod
    /\ admissions' = admissions + 1
    /\ pc' = "idle"
    /\ idx' = 1
    /\ patch' = <<>>
    /\ filerBucketList' = <<>>
    /\ isFirstVol' = TRUE
    /\ invoked' = FALSE
    /\ response' = NoResponse
    /\ UNCHANGED secretList

Next ==
    \/ MutateSkip
    \/ CreatePatchBegin
    \/ CreatePatchPanic
    \/ LoopSkipOther
    \/ LoopSkipInvalid
    \/ LoopInject
    \/ Return
    \/ Readmit

Spec == Init /\ [][Next]_vars

-----------------------------------------------------------------------------
(* Properties *)

HasNotebookLabel == NotebookNameLabel \in DOMAIN pod.labels

SkipResponse == [allowed |-> TRUE, hasPatch |-> FALSE, patch |-> <<>>]

\* two pieces that are the same letter up to case
SameLetter(a, b) ==
    \/ a = b
    \/ a \in DOMAIN UpperToLower /\ UpperToLower[a] = b
    \/ b \in DOMAIN UpperToLower /\ UpperToLower[b] = a

EqualsIgnoringCase(x, y) ==
    Len(x) = Len(y) /\ \A k \in 1..Len(x) : SameLetter(x[k], y[k])

\* C1: a pod without the "notebook-name" label is never mutated, whatever its
\* annotations: mutationRequired is false, the response is allowed and carries
\* no patch, and createPatch is not invoked.
C1_NoLabelNoPatch ==
    (~HasNotebookLabel /\ pc # "idle")
        => /\ ~mutationRequired(pod)
           /\ pc = "done"
           /\ ~invoked
           /\ response = SkipResponse

C1_Witness ==
    /\ pc = "done"
    /\ ~HasNotebookLabel
    /\ MapGet(pod.annotations.m, admissionWebhookAnnotationInjectKey) = <<"y", "e", "s">>
    /\ MapGet(pod.annotations.m, admissionWebhookAnnotationStatusKey) = <<>>
    /\ response = SkipResponse

\* what C2 says mutationRequired returns for a labelled pod
C2_Expected ==
    LET status == IF admissionWebhookAnnotationStatusKey \in DOMAIN pod.annotations.m
                  THEN pod.annotations.m[admissionWebhookAnnotationStatusKey] ELSE <<>>
        inject == IF admissionWebhookAnnotationInjectKey \in DOMAIN pod.annotations.m
                  THEN pod.annotations.m[admissionWebhookAnnotationInjectKey] ELSE <<>>
    IN  IF EqualsIgnoringCase(status, Injected) THEN FALSE
        ELSE ~ \E w \in NegativeInjectValues : EqualsIgnoringCase(inject, w)

\* C2: for a labelled pod mutationRequired is false when the status annotation
\* is "injected" in any letter case, otherwise false exactly when the inject
\* annotation is, in any letter case, one of n / not / false / off, and true in
\* every other case (nil map and absent annotation included); mutate calls
\* createPatch exactly when it is true.
C2_PolicyDecision ==
    (HasNotebookLabel /\ pc # "idle")
        => /\ mutationRequired(pod) = C2_Expected
           /\ invoked = C2_Expected

C2_Witness ==
    /\ pc = "done"
    /\ HasNotebookLabel
    /\ ~pod.annotations.isNil
    /\ MapGet(pod.annotations.m, admissionWebhookAnnotationStatusKey)
           = <<"p", "e", "n", "d", "i", "n", "g">>
    /\ MapGet(pod.annotations.m, admissionWebhookAnnotationInjectKey) = <<"N", "o", "T">>
    /\ ~invoked
    /\ response = SkipResponse

\* a secret createPatch takes as a credential with all four fields filled in
IsValidCredential(secret) ==
    /\ Contains(secret.name, FilerConnSecret)
    /\ secret.data.S3_BUCKET # <<>>
    /\ secret.data.S3_URL # <<>>
    /\ secret.data.S3_ACCESS # <<>>
    /\ secret.data.S3_SECRET # <<>>

\* the number of valid credentials among the first k secrets of the listing
ValidCount(k) == Cardinality({ j \in 1..k : IsValidCredential(secretList[j]) })

IsContainerAdd(o) ==
    o.op = "add" /\ o.path \in {ContainersPath, ContainersPath \o AppendSuffix}

IsVolumeAdd(o) ==
    o.op = "add" /\ o.path \in {VolumesPath, VolumesPath \o AppendSuffix}

\* the container, volume or mount that an add operation carries
AddedItem(o) == IF o.path[Len(o.path)] = "-" THEN o.value ELSE o.value[1]

\* C3: with the one-container, two-volume template, after n valid credentials
\* the patch holds exactly n container adds and 2n volume adds, and for each
\* sidecar the container's first volume mount is named as its Volume[0], and
\* the "fdPassingEmptyDirName" attribute of its Volume[1] is that same name.
C3_CountsAndCouplings ==
    (pc \in {"loop", "done"} /\ invoked)
        => LET n == ValidCount(idx - 1)
               cs == SelectSeq(patch, IsContainerAdd)
               vs == SelectSeq(patch, IsVolumeAdd)
           IN  /\ Len(cs) = n
               /\ Len(vs) = 2 * n
               /\ \A j \in 1..n :
                     /\ AddedItem(cs[j]).volumeMounts[1].name = AddedItem(vs[2 * j - 1]).name
                     /\ AddedItem(vs[2 * j]).attrs["fdPassingEmptyDirName"]
                            = AddedItem(vs[2 * j - 1]).name

C3_Witness ==
    /\ pc = "done"
    /\ response.hasPatch
    /\ ValidCount(Len(secretList)) = 3
    /\ Len(SelectSeq(response.patch, IsContainerAdd)) = 3
    /\ Len(SelectSeq(response.patch, IsVolumeAdd)) = 6

\* C4: every name token createPatch assigns as a sidecar container name
\* matches ^[a-z0-9]([-a-z0-9]*[a-z0-9])?$.
C4_NamesMatchGrammar ==
    \A k \in 1..Len(filerBucketList) : validNameRegex(filerBucketList[k])

\* C5: the name tokens generated so far in one request are pairwise distinct.
C5_NamesDistinct ==
    \A j, k \in 1..Len(filerBucketList) :
        j # k => filerBucketList[j] # filerBucketList[k]

\* C6: a credential with an empty required field adds no operation and no used
\* name, leaves the first-volume flag alone, and the loop goes on to the next
\* secret.
C6_InvalidSecretSkipped ==
    [][ ( /\ pc = "loop"
          /\ idx <= Len(secretList)
          /\ \/ secretList[idx].data.S3_BUCKET = <<>>
             \/ secretList[idx].data.S3_URL = <<>>
             \/ secretList[idx].data.S3_ACCESS = <<>>
             \/ secretList[idx].data.S3_SECRET = <<>> )
        => ( /\ patch' = patch
             /\ filerBucketList' = filerBucketList
             /\ isFirstVol' = isFirstVol
             /\ pc' = "loop"
             /\ idx' = idx + 1 ) ]_vars

\* an invalid credential came first for a pod without volumes, and the valid
\* one after it was still processed as the first
C6_Witness ==
    /\ pc = "done"
    /\ Len(secretList) = 2
    /\ Contains(secretList[1].name, FilerConnSecret)
    /\ secretList[1].data.S3_BUCKET = <<>>
    /\ IsValidCredential(secretList[2])
    /\ pod.volumes = <<>>
    /\ Len(filerBucketList) = 1
    /\ \E k \in 1..Len(response.patch) : response.patch[k].path = WorkingVolumeMountsPath

Applied == ApplyPatch(pod, response.patch)

\* C7: applying the patch leaves every container, volume, working-container
\* volume mount and annotation the pod had, the status annotation excepted.
C7_ExistingEntriesPreserved ==
    (pc = "done" /\ response.hasPatch /\ Applied.ok)
        => LET q == Applied.pod
           IN  /\ \A k \in 1..Len(pod.containers) :
                     \E j \in 1..Len(q.containers) :
                        /\ q.containers[j].name = pod.containers[k].name
                        /\ q.containers[j].env = pod.containers[k].env
                        /\ \A i \in 1..Len(pod.containers[k].volumeMounts) :
                              \E h \in 1..Len(q.containers[j].volumeMounts) :
                                 q.containers[j].volumeMounts[h]
                                     = pod.containers[k].volumeMounts[i]
               /\ \A k \in 1..Len(pod.volumes) :
                     \E j \in 1..Len(q.volumes) : q.volumes[j] = pod.volumes[k]
               /\ \A key \in DOMAIN pod.annotations.m \ {admissionWebhookAnnotationStatusKey} :
                     /\ key \in DOMAIN q.annotations.m
                     /\ q.annotations.m[key] = pod.annotations.m[key]

\* C8: every operation of the patch, applied in order, targets a location
\* that is valid when it is applied.
C8_OperationsTargetValidLocations ==
    (pc = "done" /\ response.hasPatch) => ApplyOps(pod, response.patch).ok

\* C9: when mutation is required (and a credential was injected), the
\* returned patch applies and sets the status annotation to "injected", so
\* that a second admission of the patched pod is a no-op.
C9_PatchMarksPodInjected ==
    (pc = "done" /\ invoked /\ Len(filerBucketList) >= 1)
        => /\ response.hasPatch
           /\ Applied.ok
           /\ MapGet(Applied.pod.annotations.m, admissionWebhookAnnotationStatusKey) = Injected
           /\ ~mutationRequired(Applied.pod)

\* the pod has one working container, the first one, with one NB_PREFIX entry
OneWorkingContainerFirst ==
    /\ Len(pod.containers) >= 1
    /\ \A k \in 1..Len(pod.containers) :
          Cardinality({ e \in 1..Len(pod.containers[k].env) :
                          pod.containers[k].env[e].name = "NB_PREFIX" })
              = (IF k = 1 THEN 1 ELSE 0)

\* C10: for n >= 1 valid credentials the patched pod holds every injected
\* sidecar container, both volumes of every sidecar and one volume mount of
\* the working container per credential.
C10_AllInjectedEntriesPresent ==
    (pc = "done" /\ response.hasPatch /\ Len(filerBucketList) >= 1
         /\ OneWorkingContainerFirst /\ Applied.ok)
        => LET q == Applied.pod
           IN  \A i \in 1..Len(filerBucketList) :
                  LET name == filerBucketList[i]
                      fd == fdPassingVolumeMountName(name, pod.namespace)
                      csi == csiEphemeralVolumeMountName(name, pod.namespace)
                  IN  /\ \E j \in 1..Len(q.containers) : q.containers[j].name = name
                      /\ \E j \in 1..Len(q.volumes) : q.volumes[j].name = fd
                      /\ \E j \in 1..Len(q.volumes) : q.volumes[j].name = csi
                      /\ \E j \in 1..Len(q.containers[1].volumeMounts) :
                            q.containers[1].volumeMounts[j].name = csi

====
